---- MODULE Spec2Model ----
(***************************************************************************)
(* Model of the unwrapped-phrase scanner (src/index.js and its tag-aware   *)
(* revision src/unnamed/part_000).  A text file is read twice: pass 1      *)
(* collects the payloads of @[static#...] / @[static-header#...]           *)
(* annotations, pass 2 searches every cleaned line for bare occurrences of *)
(* each collected phrase with the pattern \b<escaped phrase>\b (flags gi). *)
(* Lines and phrases are sequences of one-character strings; the regular   *)
(* expressions are modelled by what the JavaScript engine does with them.  *)
(***************************************************************************)
EXTENDS Integers, Sequences, FiniteSets, TLC

VARIABLES script, argGiven, fileExists, doc, pc, knownWrappedPhrases,
          unwrappedOccurrences, linesRead1, lineNumber, cleanedLine,
          phraseIdx, lastIndex, stdout, stderr, exitCode, foundUnwrappedOccurrences

vars == <<script, argGiven, fileExists, doc, pc, knownWrappedPhrases,
          unwrappedOccurrences, linesRead1, lineNumber, cleanedLine,
          phraseIdx, lastIndex, stdout, stderr, exitCode, foundUnwrappedOccurrences>>

-----------------------------------------------------------------------------
(* Characters *)

\* Printable ASCII in code order, codes 32..126 (code 96, the grave accent, is
\* spelled "grave": the lexer of the tools reads that character specially).
Ascii ==
  <<" ", "!", "\"", "#", "$", "%", "&", "'", "(", ")", "*", "+", ",", "-", ".", "/",
    "0", "1", "2", "3", "4", "5", "6", "7", "8", "9", ":", ";", "<", "=", ">", "?",
    "@", "A", "B", "C", "D", "E", "F", "G", "H", "I", "J", "K", "L", "M", "N", "O",
    "P", "Q", "R", "S", "T", "U", "V", "W", "X", "Y", "Z", "[", "\\", "]", "^", "_",
    "grave", "a", "b", "c", "d", "e", "f", "g", "h", "i", "j", "k", "l", "m", "n", "o",
    "p", "q", "r", "s", "t", "u", "v", "w", "x", "y", "z", "{", "|", "}", "~">>

AsciiSet == {Ascii[i] : i \in 1..Len(Ascii)}

\* UTF-16 code unit of a character.
CharCode == [c \in AsciiSet |-> 31 + (CHOOSE i \in 1..Len(Ascii) : Ascii[i] = c)]

\* The line terminator readline splits on.
NL == "\n"

\* \w of the regular expression engine: [A-Za-z0-9_].
IsWordChar(c) ==
  LET k == CharCode[c]
  IN  \/ (k >= 48 /\ k <= 57)
      \/ (k >= 65 /\ k <= 90)
      \/ k = 95
      \/ (k >= 97 /\ k <= 122)

\* Canonicalize of the i flag (no u flag): the upper case of the character.
Canonicalize(c) ==
  LET k == CharCode[c]
  IN  IF k >= 97 /\ k <= 122 THEN Ascii[k - 32 - 31] ELSE c

-----------------------------------------------------------------------------
(* The three patterns and the matching they perform *)

\* First position >= from (1-based) holding character c, or 0.
FirstIndexOf(line, c, from) ==
  IF \E j \in from..Len(line) : line[j] = c
  THEN CHOOSE j \in from..Len(line) :
         line[j] = c /\ \A k \in from..(j - 1) : line[k] # c
  ELSE 0

\* Literal lit occurs at 1-based position i of line, compared under the i flag.
MatchesIgnoreCase(line, i, lit) ==
  /\ i >= 1
  /\ i + Len(lit) - 1 <= Len(line)
  /\ \A k \in 1..Len(lit) : Canonicalize(line[i + k - 1]) = Canonicalize(lit[k])

MARKER_STATIC == <<"@", "[", "s", "t", "a", "t", "i", "c", "#">>
MARKER_STATIC_HEADER ==
  <<"@", "[", "s", "t", "a", "t", "i", "c", "-", "h", "e", "a", "d", "e", "r", "#">>

NoMatch == [found |-> FALSE, index |-> 0, end |-> 0, payload |-> <<>>]

\* WrappedMatchAt with a payload that may run to the end of the line: a marker
\* that is never closed counts as an annotation.
WrappedMatchAt_Unterminated(line, i) ==
  LET afterHash == IF MatchesIgnoreCase(line, i, MARKER_STATIC)
                   THEN i + Len(MARKER_STATIC)
                   ELSE IF MatchesIgnoreCase(line, i, MARKER_STATIC_HEADER)
                        THEN i + Len(MARKER_STATIC_HEADER)
                        ELSE 0
      close == IF afterHash = 0 THEN 0 ELSE FirstIndexOf(line, "]", afterHash)
  IN  IF afterHash = 0
      THEN NoMatch
      ELSE IF close = 0
           THEN [found |-> TRUE, index |-> i - 1, end |-> Len(line),
                 payload |-> SubSeq(line, afterHash, Len(line))]
           ELSE [found |-> TRUE, index |-> i - 1, end |-> close,
                 payload |-> SubSeq(line, afterHash, close - 1)]

\* /@\[(?:static|static-header)#(.*?)\]/gi anchored at 1-based position i:
\* the marker, then the lazy payload up to the first closing bracket.
WrappedMatchAt(line, i) ==
  LET afterHash == IF MatchesIgnoreCase(line, i, MARKER_STATIC)
                   THEN i + Len(MARKER_STATIC)
                   ELSE IF MatchesIgnoreCase(line, i, MARKER_STATIC_HEADER)
                        THEN i + Len(MARKER_STATIC_HEADER)
                        ELSE 0
      close == IF afterHash = 0 THEN 0 ELSE FirstIndexOf(line, "]", afterHash)
  IN  IF close = 0
      THEN NoMatch
      ELSE [found |-> TRUE, index |-> i - 1, end |-> close,
            payload |-> SubSeq(line, afterHash, close - 1)]

\* WRAPPED_PHRASE_EXTRACTION_PATTERN.exec(line) with lastIndex = from (0-based):
\* the leftmost match starting at or after from.
WRAPPED_PHRASE_EXTRACTION_PATTERN(line, from) ==
  IF \E i \in (from + 1)..Len(line) : WrappedMatchAt(line, i).found
  THEN WrappedMatchAt(line,
         CHOOSE i \in (from + 1)..Len(line) :
           /\ WrappedMatchAt(line, i).found
           /\ \A k \in (from + 1)..(i - 1) : ~WrappedMatchAt(line, k).found)
  ELSE NoMatch

\* Set.add on the insertion-ordered Set of phrases.
SetAdd(set, phrase) ==
  IF \E k \in 1..Len(set) : set[k] = phrase THEN set ELSE Append(set, phrase)

\* The inner while loop of pass 1 on one line: every match adds its payload.
RECURSIVE CollectPhrases(_, _, _)
CollectPhrases(line, from, known) ==
  LET m == WRAPPED_PHRASE_EXTRACTION_PATTERN(line, from)
  IN  IF m.found
      THEN CollectPhrases(line, m.end, SetAdd(known, m.payload))
      ELSE known

\* line.replace(WRAPPED_PATTERN_REMOVAL_PATTERN, ""): every non-overlapping
\* match, leftmost first, is removed; from is the 0-based scan position.
RECURSIVE WRAPPED_PATTERN_REMOVAL_PATTERN(_, _)
WRAPPED_PATTERN_REMOVAL_PATTERN(line, from) ==
  LET m == WRAPPED_PHRASE_EXTRACTION_PATTERN(line, from)
  IN  IF m.found
      THEN SubSeq(line, from + 1, m.index)
             \o WRAPPED_PATTERN_REMOVAL_PATTERN(line, m.end)
      ELSE SubSeq(line, from + 1, Len(line))

\* /<[^>]+?>/g anchored at 1-based position i: "<", at least one character
\* other than ">", then the first ">".
TagMatchAt(line, i) ==
  LET close == IF i <= Len(line) /\ line[i] = "<"
               THEN FirstIndexOf(line, ">", i + 1)
               ELSE 0
  IN  IF close >= i + 2
      THEN [found |-> TRUE, index |-> i - 1, end |-> close, payload |-> <<>>]
      ELSE NoMatch

TagExec(line, from) ==
  IF \E i \in (from + 1)..Len(line) : TagMatchAt(line, i).found
  THEN TagMatchAt(line,
         CHOOSE i \in (from + 1)..Len(line) :
           /\ TagMatchAt(line, i).found
           /\ \A k \in (from + 1)..(i - 1) : ~TagMatchAt(line, k).found)
  ELSE NoMatch

\* The replacement text of the tag step.
TagReplacement == <<" ">>

\* cleanedLine.replace(HTML_TAG_PATTERN, " ").
RECURSIVE HTML_TAG_PATTERN(_, _)
HTML_TAG_PATTERN(line, from) ==
  LET m == TagExec(line, from)
  IN  IF m.found
      THEN SubSeq(line, from + 1, m.index) \o TagReplacement
             \o HTML_TAG_PATTERN(line, m.end)
      ELSE SubSeq(line, from + 1, Len(line))

\* The cleaning of one line in pass 2; index.js has no tag step.
CleanLine(scr, line) ==
  LET noWrapped == WRAPPED_PATTERN_REMOVAL_PATTERN(line, 0)
  IN  IF scr = "part_000" THEN HTML_TAG_PATTERN(noWrapped, 0) ELSE noWrapped

\* The characters of the class [.*+?^${}()|[\]\\].
RegExpSpecial ==
  {".", "*", "+", "?", "^", "$", "{", "}", "(", ")", "|", "[", "]", "\\"}

\* string.replace(/[.*+?^${}()|[\]\\]/g, "\\$&")
RECURSIVE escapeRegExp(_)
escapeRegExp(string) ==
  IF string = <<>>
  THEN <<>>
  ELSE (IF Head(string) \in RegExpSpecial
        THEN <<"\\", Head(string)>>
        ELSE <<Head(string)>>) \o escapeRegExp(Tail(string))

\* The template literal \\b${escapedPhrase}\\b.
PatternSource(phrase) == <<"\\", "b">> \o escapeRegExp(phrase) \o <<"\\", "b">>

\* new RegExp(source, "gi"): the source parsed into atoms.  \b is the word
\* boundary assertion, a backslash before a special character is that
\* character, any other unspecial character is itself.  (escapeRegExp leaves
\* no special character unescaped, so no other form reaches the parser.)
RECURSIVE ParsePattern(_)
ParsePattern(src) ==
  IF src = <<>>
  THEN <<>>
  ELSE CASE Head(src) = "\\" /\ Len(src) >= 2 /\ src[2] = "b" ->
              <<[kind |-> "boundary", ch |-> ""]>> \o ParsePattern(Tail(Tail(src)))
         [] Head(src) = "\\" /\ Len(src) >= 2 /\ src[2] \in RegExpSpecial ->
              <<[kind |-> "char", ch |-> src[2]]>> \o ParsePattern(Tail(Tail(src)))
         [] Head(src) \notin RegExpSpecial ->
              <<[kind |-> "char", ch |-> Head(src)]>> \o ParsePattern(Tail(src))

\* \b at 0-based position pos: exactly one of the characters before and after
\* pos is a word character.
IsWordBoundary(line, pos) ==
  LET before == pos > 0 /\ IsWordChar(line[pos])
      after == pos < Len(line) /\ IsWordChar(line[pos + 1])
  IN  before # after

\* The atoms from the k-th on match at 0-based position pos: the end position
\* of the match, or -1.
RECURSIVE MatchAtoms(_, _, _, _)
MatchAtoms(atoms, k, line, pos) ==
  IF k > Len(atoms)
  THEN pos
  ELSE IF atoms[k].kind = "boundary"
       THEN IF IsWordBoundary(line, pos)
            THEN MatchAtoms(atoms, k + 1, line, pos)
            ELSE -1
       ELSE IF pos < Len(line)
               /\ Canonicalize(line[pos + 1]) = Canonicalize(atoms[k].ch)
            THEN MatchAtoms(atoms, k + 1, line, pos + 1)
            ELSE -1

\* barePhrasePattern.exec(cleanedLine) with lastIndex = from: the leftmost
\* match at a position in from..length; a global pattern leaves lastIndex at
\* the end of the match, which for an empty match is where the match began.
barePhrasePattern(phrase, line, from) ==
  LET atoms == ParsePattern(PatternSource(phrase))
      hits == {i \in from..Len(line) : MatchAtoms(atoms, 1, line, i) # -1}
  IN  IF hits = {}
      THEN NoMatch
      ELSE LET i == CHOOSE i \in hits : \A k \in hits : i <= k
           IN  [found |-> TRUE, index |-> i,
                end |-> MatchAtoms(atoms, 1, line, i), payload |-> <<>>]

-----------------------------------------------------------------------------
(* Input files *)

\* Longest input file, counted in chunks of the alphabets below.
MaxFileChunks == 4

Annotation(marker, payload) == marker \o payload \o <<"]">>

MARKER_UPPER == <<"@", "[", "S", "T", "A", "T", "I", "C", "#">>

\* Each alphabet is a small set of chunks of text; a file is a concatenation
\* of chunks of one alphabet.
Alphabets ==
  { { <<"a">>, <<" ">>, <<NL>>,
      Annotation(MARKER_STATIC, <<"a", "a">>), Annotation(MARKER_STATIC, <<"a">>) },
    { <<"a">>, <<"+">>, <<NL>>,
      Annotation(MARKER_STATIC, <<"a", "+">>),
      Annotation(MARKER_STATIC_HEADER, <<"+", "a">>) },
    { <<"a">>, <<"<">>, <<">">>, <<NL>>, Annotation(MARKER_STATIC_HEADER, <<"a">>) },
    { <<"a">>, <<" ">>, <<NL>>, Annotation(MARKER_STATIC, <<>>) },
    { <<"a">>, <<"A">>, <<NL>>,
      Annotation(MARKER_STATIC, <<"a">>), Annotation(MARKER_UPPER, <<"A">>) },
    { <<"a">>, <<"]">>, <<NL>>, MARKER_STATIC } }

RECURSIVE FilesOver(_, _)
FilesOver(alphabet, n) ==
  IF n = 0
  THEN {<<>>}
  ELSE LET shorter == FilesOver(alphabet, n - 1)
       IN  shorter \cup {f \o c : f \in shorter, c \in alphabet}

Files == UNION {FilesOver(alphabet, MaxFileChunks) : alphabet \in Alphabets}

\* The lines readline yields for a file: the text between line terminators;
\* a terminator at the very end of the file opens no further line.
RECURSIVE ReadLines(_)
ReadLines(content) ==
  IF content = <<>>
  THEN <<>>
  ELSE LET nl == FirstIndexOf(content, NL, 1)
       IN  IF nl = 0
           THEN <<content>>
           ELSE <<SubSeq(content, 1, nl - 1)>>
                  \o ReadLines(SubSeq(content, nl + 1, Len(content)))

Scripts == {"index.js", "part_000"}

-----------------------------------------------------------------------------
(* The program *)

EmptyMap == [p \in {} |-> <<>>]

Message(text, phrase, nums) == [msg |-> text, phrase |-> phrase, nums |-> nums]

\* Comparison of two strings by code units, as Array.prototype.sort does it.
RECURSIVE StrLess(_, _)
StrLess(a, b) ==
  IF a = <<>> THEN b # <<>>
  ELSE IF b = <<>> THEN FALSE
  ELSE IF Head(a) # Head(b) THEN CharCode[Head(a)] < CharCode[Head(b)]
  ELSE StrLess(Tail(a), Tail(b))

\* Array.from(keys).sort()
RECURSIVE sortedPhrases(_)
sortedPhrases(keys) ==
  IF keys = {}
  THEN <<>>
  ELSE LET least == CHOOSE p \in keys : \A q \in keys \ {p} : StrLess(p, q)
       IN  <<least>> \o sortedPhrases(keys \ {least})

Init ==
  /\ script \in Scripts
  /\ \/ argGiven = FALSE /\ fileExists = FALSE /\ doc = <<>>
     \/ argGiven = TRUE /\ fileExists = FALSE /\ doc = <<>>
     \/ argGiven = TRUE /\ fileExists = TRUE
          /\ \E content \in Files : doc = ReadLines(content)
  /\ pc = "main"
  /\ knownWrappedPhrases = <<>>
  /\ unwrappedOccurrences = EmptyMap
  /\ foundUnwrappedOccurrences = EmptyMap
  /\ linesRead1 = 0
  /\ lineNumber = 0
  /\ cleanedLine = <<>>
  /\ phraseIdx = 0
  /\ lastIndex = 0
  /\ stdout = <<>>
  /\ stderr = <<>>
  /\ exitCode = -1

\* The entry block: the argument check, then the call of the scan.
Main ==
  /\ pc = "main"
  /\ IF ~argGiven
     THEN /\ stdout' = stdout
               \o << Message(IF script = "index.js"
                             THEN "Usage: node findPhrases.js <path_to_your_text_file>"
                             ELSE "Usage: node index.js <path_to_your_text_file>",
                             <<>>, <<>>),
                     Message("Please provide a file path as a command-line argument.",
                             <<>>, <<>>) >>
          /\ exitCode' = 1
          /\ pc' = "exited"
     ELSE /\ stdout' = Append(stdout, Message("Searching for unwrapped phrases in", <<>>, <<>>))
          /\ exitCode' = exitCode
          /\ pc' = "existsSync"
  /\ UNCHANGED <<script, argGiven, fileExists, doc, knownWrappedPhrases,
                 unwrappedOccurrences, foundUnwrappedOccurrences, linesRead1,
                 lineNumber, cleanedLine, phraseIdx, lastIndex, stderr>>

\* fs.existsSync, and the opening of the first stream.
ExistsSync ==
  /\ pc = "existsSync"
  /\ IF ~fileExists
     THEN /\ stderr' = Append(stderr, Message("Error: The file does not exist.", <<>>, <<>>))
          /\ stdout' = stdout
          /\ exitCode' = 1
          /\ pc' = "exited"
     ELSE /\ stdout' = Append(stdout,
                 Message("Pass 1: Collecting phrases from wrapped patterns...", <<>>, <<>>))
          /\ stderr' = stderr
          /\ exitCode' = exitCode
          /\ pc' = "pass1"
  /\ UNCHANGED <<script, argGiven, fileExists, doc, knownWrappedPhrases,
                 unwrappedOccurrences, foundUnwrappedOccurrences, linesRead1,
                 lineNumber, cleanedLine, phraseIdx, lastIndex>>

\* One iteration of the for-await loop of pass 1.
Pass1Line ==
  /\ pc = "pass1"
  /\ linesRead1 < Len(doc)
  /\ linesRead1' = linesRead1 + 1
  /\ knownWrappedPhrases' = CollectPhrases(doc[linesRead1 + 1], 0, knownWrappedPhrases)
  /\ UNCHANGED <<script, argGiven, fileExists, doc, pc, unwrappedOccurrences,
                 foundUnwrappedOccurrences, lineNumber, cleanedLine, phraseIdx,
                 lastIndex, stdout, stderr, exitCode>>

\* The first stream is exhausted: the count is printed, and the scan either
\* returns a new empty Map or opens the second stream.
Pass1End ==
  /\ pc = "pass1"
  /\ linesRead1 = Len(doc)
  /\ IF Len(knownWrappedPhrases) = 0
     THEN /\ stdout' = stdout
               \o << Message("Found unique phrases in wrapped patterns.",
                             <<>>, <<Len(knownWrappedPhrases)>>),
                     Message("No wrapped phrases found to monitor for unwrapped instances.",
                             <<>>, <<>>) >>
          /\ foundUnwrappedOccurrences' = EmptyMap
          /\ lineNumber' = lineNumber
          /\ pc' = "processResults"
     ELSE /\ stdout' = stdout
               \o << Message("Found unique phrases in wrapped patterns.",
                             <<>>, <<Len(knownWrappedPhrases)>>),
                     Message(IF script = "index.js"
                             THEN "Pass 2: Searching for unwrapped instances..."
                             ELSE "Pass 2: Searching for unwrapped instances (ignoring HTML tags)...",
                             <<>>, <<>>) >>
          /\ foundUnwrappedOccurrences' = foundUnwrappedOccurrences
          /\ lineNumber' = 0
          /\ pc' = "pass2"
  /\ UNCHANGED <<script, argGiven, fileExists, doc, knownWrappedPhrases,
                 unwrappedOccurrences, linesRead1, cleanedLine, phraseIdx,
                 lastIndex, stderr, exitCode>>

\* One iteration of the for-await loop of pass 2 up to the first phrase: the
\* line is counted and cleaned, and the first pattern is built.
Pass2Line ==
  /\ pc = "pass2"
  /\ lineNumber < Len(doc)
  /\ lineNumber' = lineNumber + 1
  /\ cleanedLine' = CleanLine(script, doc[lineNumber + 1])
  /\ phraseIdx' = 1
  /\ lastIndex' = 0
  /\ pc' = "exec"
  /\ UNCHANGED <<script, argGiven, fileExists, doc, knownWrappedPhrases,
                 unwrappedOccurrences, foundUnwrappedOccurrences, linesRead1,
                 stdout, stderr, exitCode>>

\* RecordMatch without the comparison with the last entry: every match pushes.
RecordMatch_AlwaysPush(map, phrase, n) ==
  LET existingLineNumbers == IF phrase \in DOMAIN map THEN map[phrase] ELSE <<>>
  IN  [p \in DOMAIN map \cup {phrase} |->
         IF p = phrase THEN Append(existingLineNumbers, n) ELSE map[p]]

\* RecordMatch keyed by the phrase in upper case instead of the phrase as
\* it was collected.
RecordMatch_CanonicalKey(map, phrase, n) ==
  LET key == [k \in 1..Len(phrase) |-> Canonicalize(phrase[k])]
      existingLineNumbers == IF key \in DOMAIN map THEN map[key] ELSE <<>>
      pushed == IF Len(existingLineNumbers) > 0
                   /\ existingLineNumbers[Len(existingLineNumbers)] = n
                THEN existingLineNumbers
                ELSE Append(existingLineNumbers, n)
  IN  [p \in DOMAIN map \cup {key} |-> IF p = key THEN pushed ELSE map[p]]

\* The body of the while loop for one match: the entry of the phrase is
\* created if absent, and the line number is pushed unless it is the last one.
RecordMatch(map, phrase, n) ==
  LET existingLineNumbers == IF phrase \in DOMAIN map THEN map[phrase] ELSE <<>>
      pushed == IF Len(existingLineNumbers) > 0
                   /\ existingLineNumbers[Len(existingLineNumbers)] = n
                THEN existingLineNumbers
                ELSE Append(existingLineNumbers, n)
  IN  [p \in DOMAIN map \cup {phrase} |-> IF p = phrase THEN pushed ELSE map[p]]

\* exec finds a match of the current phrase.
ExecMatch ==
  /\ pc = "exec"
  /\ LET phrase == knownWrappedPhrases[phraseIdx]
         m == barePhrasePattern(phrase, cleanedLine, lastIndex)
     IN  /\ m.found
         /\ unwrappedOccurrences' = RecordMatch(unwrappedOccurrences, phrase, lineNumber)
         /\ lastIndex' = m.end
  /\ UNCHANGED <<script, argGiven, fileExists, doc, pc, knownWrappedPhrases,
                 foundUnwrappedOccurrences, linesRead1, lineNumber, cleanedLine,
                 phraseIdx, stdout, stderr, exitCode>>

\* exec returns null: the next phrase, or the next line.
ExecNull ==
  /\ pc = "exec"
  /\ ~barePhrasePattern(knownWrappedPhrases[phraseIdx], cleanedLine, lastIndex).found
  /\ lastIndex' = 0
  /\ IF phraseIdx < Len(knownWrappedPhrases)
     THEN phraseIdx' = phraseIdx + 1 /\ pc' = pc
     ELSE phraseIdx' = phraseIdx /\ pc' = "pass2"
  /\ UNCHANGED <<script, argGiven, fileExists, doc, knownWrappedPhrases,
                 unwrappedOccurrences, foundUnwrappedOccurrences, linesRead1,
                 lineNumber, cleanedLine, stdout, stderr, exitCode>>

\* The second stream is exhausted: the scan returns its Map.
Pass2End ==
  /\ pc = "pass2"
  /\ lineNumber = Len(doc)
  /\ foundUnwrappedOccurrences' = unwrappedOccurrences
  /\ pc' = "processResults"
  /\ UNCHANGED <<script, argGiven, fileExists, doc, knownWrappedPhrases,
                 unwrappedOccurrences, linesRead1, lineNumber, cleanedLine,
                 phraseIdx, lastIndex, stdout, stderr, exitCode>>

\* A stream fails while a line is awaited: the catch block.
ReadError ==
  /\ pc \in {"pass1", "pass2"}
  /\ stderr' = Append(stderr, Message("An unexpected error occurred while processing", <<>>, <<>>))
  /\ exitCode' = 1
  /\ pc' = "exited"
  /\ UNCHANGED <<script, argGiven, fileExists, doc, knownWrappedPhrases,
                 unwrappedOccurrences, foundUnwrappedOccurrences, linesRead1,
                 lineNumber, cleanedLine, phraseIdx, lastIndex, stdout>>

\* The lines processResults prints for a non-empty Map.
RECURSIVE ReportLines(_, _)
ReportLines(map, phrases) ==
  IF phrases = <<>>
  THEN <<>>
  ELSE (IF Len(map[Head(phrases)]) > 0
        THEN <<Message("Phrase found unwrapped at lines", Head(phrases), map[Head(phrases)])>>
        ELSE <<>>) \o ReportLines(map, Tail(phrases))

processResults ==
  /\ pc = "processResults"
  /\ stdout' = stdout \o
       (IF DOMAIN foundUnwrappedOccurrences # {}
        THEN <<Message("--- Unwrapped Phrase Occurrences Found ---", <<>>, <<>>)>>
               \o ReportLines(foundUnwrappedOccurrences,
                              sortedPhrases(DOMAIN foundUnwrappedOccurrences))
               \o <<Message("----------------------------------------", <<>>, <<>>)>>
        ELSE <<Message("No unwrapped instances of known phrases found.", <<>>, <<>>)>>)
  /\ exitCode' = 0
  /\ pc' = "done"
  /\ UNCHANGED <<script, argGiven, fileExists, doc, knownWrappedPhrases,
                 unwrappedOccurrences, foundUnwrappedOccurrences, linesRead1,
                 lineNumber, cleanedLine, phraseIdx, lastIndex, stderr>>

Next ==
  \/ Main
  \/ ExistsSync
  \/ Pass1Line
  \/ Pass1End
  \/ Pass2Line
  \/ ExecMatch
  \/ ExecNull
  \/ Pass2End
  \/ ReadError
  \/ processResults

Spec == Init /\ [][Next]_vars

-----------------------------------------------------------------------------
(* Notions the properties are stated in *)

Range(seq) == {seq[k] : k \in 1..Len(seq)}

Last(seq) == seq[Len(seq)]

Finished == pc \in {"processResults", "done"}

\* The annotation occurrences of a line, as <<first, last>> positions.
RECURSIVE AnnotationSpansFrom(_, _)
AnnotationSpansFrom(line, from) ==
  LET m == WRAPPED_PHRASE_EXTRACTION_PATTERN(line, from)
  IN  IF m.found
      THEN {<<m.index + 1, m.end>>} \cup AnnotationSpansFrom(line, m.end)
      ELSE {}

AnnotationSpans(line) == AnnotationSpansFrom(line, 0)

\* The tag-like spans <...> of a line.
RECURSIVE TagSpansFrom(_, _)
TagSpansFrom(line, from) ==
  LET m == TagExec(line, from)
  IN  IF m.found
      THEN {<<m.index + 1, m.end>>} \cup TagSpansFrom(line, m.end)
      ELSE {}

TagSpans(line) == TagSpansFrom(line, 0)

\* The positions at which the non-empty phrase P occurs in line, in any casing.
Occurrences(P, line) ==
  {i \in 1..Len(line) : Len(P) > 0 /\ MatchesIgnoreCase(line, i, P)}

\* The occurrence of P at position i lies within one of the spans.
InsideSome(P, i, spans) ==
  \E s \in spans : s[1] <= i /\ i + Len(P) - 1 <= s[2]

\* The occurrence of P at position i touches none of the spans.
OutsideAll(P, i, spans) ==
  \A s \in spans : i + Len(P) - 1 < s[1] \/ s[2] < i

\* The occurrence of P at i is bounded on both sides by a character that is
\* no word character, or by an edge of the line.
WordBounded(P, line, i) ==
  /\ (i = 1 \/ ~IsWordChar(line[i - 1]))
  /\ (i + Len(P) - 1 = Len(line) \/ ~IsWordChar(line[i + Len(P)]))

\* line holds a whole-word occurrence of the non-empty phrase P in any casing.
WholeWordOccurs(P, line) ==
  \E i \in Occurrences(P, line) : WordBounded(P, line, i)

\* The line contains an annotation: a marker in any casing and, somewhere
\* after it, a closing bracket.
ContainsAnnotation(line) ==
  \E i \in 1..Len(line) :
    \E marker \in {MARKER_STATIC, MARKER_STATIC_HEADER} :
      /\ MatchesIgnoreCase(line, i, marker)
      /\ \E j \in (i + Len(marker))..Len(line) : line[j] = "]"

Printed(stream, text) == \E k \in 1..Len(stream) : stream[k].msg = text

-----------------------------------------------------------------------------
(* Properties *)

\* C1: a phrase that occurs in the document only inside annotation spans has
\* no key in the Occurrence Record: every recorded phrase has, on some line,
\* an occurrence that does not lie inside an annotation.
C1_OnlyWrappedNeverRecorded ==
  \A P \in DOMAIN unwrappedOccurrences :
    Len(P) > 0 =>
      \E L \in 1..Len(doc) :
        \E i \in Occurrences(P, doc[L]) :
          ~InsideSome(P, i, AnnotationSpans(doc[L]))

\* The phrase P is the payload of exactly one annotation of the document and
\* has exactly one other occurrence, on line L, word-bounded and outside every
\* annotation and tag span.
OnceWrappedOnceBare(P, L) ==
  LET places == UNION {{<<l, i>> : i \in Occurrences(P, doc[l])} : l \in 1..Len(doc)}
      inside == {pl \in places : InsideSome(P, pl[2], AnnotationSpans(doc[pl[1]]))}
      bare == places \ inside
  IN  /\ Cardinality(inside) = 1
      /\ Cardinality(bare) = 1
      /\ \E i \in Occurrences(P, doc[L]) :
           /\ <<L, i>> \in bare
           /\ OutsideAll(P, i, AnnotationSpans(doc[L]) \cup TagSpans(doc[L]))
           /\ WordBounded(P, doc[L], i)

\* C2: a non-empty phrase that appears once inside an annotation and once as
\* word-bounded bare text on line L is mapped to exactly <<L>> after the scan.
C2_OnceBareGivesLine ==
  Finished =>
    \A P \in Range(knownWrappedPhrases) :
      \A L \in 1..Len(doc) :
        (Len(P) > 0 /\ OnceWrappedOnceBare(P, L)) =>
          /\ P \in DOMAIN unwrappedOccurrences
          /\ unwrappedOccurrences[P] = <<L>>

\* C3: a line on which the phrase occurs inside a tag-like span, and on which
\* every occurrence of it lies inside a tag-like span or inside an
\* annotation, is not recorded.
C3_InsideTagNotRecorded ==
  \A P \in DOMAIN unwrappedOccurrences :
    \A L \in Range(unwrappedOccurrences[P]) :
      (\E i \in Occurrences(P, doc[L]) : InsideSome(P, i, TagSpans(doc[L]))) =>
        \E i \in Occurrences(P, doc[L]) :
          ~InsideSome(P, i, AnnotationSpans(doc[L]) \cup TagSpans(doc[L]))

\* C4: the match loop of pass 2 finishes on every line, so that the run
\* reaches the report step.  The program is sequential and deterministic, so
\* the loop finishes exactly if it never stands in a state that its next
\* iteration leaves as it is: exec finding a match that ends at the cursor it
\* started from, for a line whose number the record of the phrase already
\* ends with.
C4_MatchLoopFinishes ==
  pc = "exec" =>
    LET phrase == knownWrappedPhrases[phraseIdx]
        m == barePhrasePattern(phrase, cleanedLine, lastIndex)
    IN  ~(/\ m.found
          /\ m.end = lastIndex
          /\ RecordMatch(unwrappedOccurrences, phrase, lineNumber) = unwrappedOccurrences)

\* C5: for a document without annotation the phrase set stays empty, pass 2
\* is never started, the returned record is empty and the reporter states
\* that nothing was found.
C5_NoAnnotationShortCircuit ==
  (\A L \in 1..Len(doc) : ~ContainsAnnotation(doc[L])) =>
    /\ knownWrappedPhrases = <<>>
    /\ pc \notin {"pass2", "exec"}
    /\ lineNumber = 0
    /\ \A k \in 1..Len(stdout) :
         stdout[k].msg \notin
           {"Pass 2: Searching for unwrapped instances...",
            "Pass 2: Searching for unwrapped instances (ignoring HTML tags)..."}
    /\ DOMAIN unwrappedOccurrences = {}
    /\ DOMAIN foundUnwrappedOccurrences = {}
    /\ (pc = "done" =>
          /\ Last(stdout).msg = "No unwrapped instances of known phrases found."
          /\ Printed(stdout, "No wrapped phrases found to monitor for unwrapped instances."))

\* A finished run on a document of several lines that holds a marker which
\* is never closed, and so no annotation.
C5_Witness ==
  /\ pc = "done"
  /\ Len(doc) >= 2
  /\ \E L \in 1..Len(doc) : \E i \in 1..Len(doc[L]) :
       MatchesIgnoreCase(doc[L], i, MARKER_STATIC)
  /\ \A L \in 1..Len(doc) : ~ContainsAnnotation(doc[L])

\* C6: a run that ends in one of the three failure cases has written its
\* message to the error stream and nothing of it to the standard output, has
\* a non-zero status, and in the first two cases has not begun pass 1.
C6_FailuresGoToStderr ==
  pc = "exited" =>
    /\ exitCode # 0
    /\ Len(stderr) = 1
    /\ ~Printed(stdout, "Please provide a file path as a command-line argument.")
    /\ (~argGiven \/ ~fileExists) =>
          /\ linesRead1 = 0
          /\ ~Printed(stdout, "Pass 1: Collecting phrases from wrapped patterns...")

\* C7: a line is recorded for a non-empty phrase only if the cleaned line
\* holds an occurrence of the phrase, in any casing, with no word character
\* next to it on either side.
C7_WholeWordSoundness ==
  \A P \in DOMAIN unwrappedOccurrences :
    \A L \in Range(unwrappedOccurrences[P]) :
      Len(P) > 0 => WholeWordOccurs(P, CleanLine(script, doc[L]))

\* C8: after the scan every line whose cleaned text holds a whole-word
\* occurrence of a known non-empty phrase, in any casing, is in the record of
\* that phrase; payloads that differ only in letter case are distinct known
\* phrases and each of them receives every such line.
C8_CaseInsensitiveComplete ==
  Finished =>
    \A P \in Range(knownWrappedPhrases) :
      \A L \in 1..Len(doc) :
        (Len(P) > 0 /\ WholeWordOccurs(P, CleanLine(script, doc[L]))) =>
          /\ P \in DOMAIN unwrappedOccurrences
          /\ L \in Range(unwrappedOccurrences[P])

\* C9: every sequence of the record is non-empty, holds line numbers between
\* 1 and the number of lines read so far in pass 2, and is strictly increasing.
C9_RecordStrictlyIncreasing ==
  \A P \in DOMAIN unwrappedOccurrences :
    LET lineNumbers == unwrappedOccurrences[P]
    IN  /\ Len(lineNumbers) >= 1
        /\ \A k \in 1..Len(lineNumbers) :
             lineNumbers[k] >= 1 /\ lineNumbers[k] <= lineNumber
        /\ \A k \in 1..(Len(lineNumbers) - 1) : lineNumbers[k] < lineNumbers[k + 1]

\* The second match of a phrase on one line has just been handled, and the
\* line stands once in the record of the phrase.
C9_Witness ==
  /\ pc = "exec"
  /\ LET phrase == knownWrappedPhrases[phraseIdx]
         first == barePhrasePattern(phrase, cleanedLine, 0)
     IN  /\ first.found
         /\ first.end < lastIndex
         /\ barePhrasePattern(phrase, cleanedLine, first.end).found
         /\ barePhrasePattern(phrase, cleanedLine, first.end).end = lastIndex
         /\ phrase \in DOMAIN unwrappedOccurrences
         /\ unwrappedOccurrences[phrase] = <<lineNumber>>

\* C10: every key of the record is a known phrase, and once pass 1 is over no
\* step changes the set of known phrases.
C10_KeysKnownAndSetFrozen ==
  /\ [](DOMAIN unwrappedOccurrences \subseteq Range(knownWrappedPhrases))
  /\ [][pc \notin {"main", "existsSync", "pass1"}
          => knownWrappedPhrases' = knownWrappedPhrases]_vars

\* A finished scan with two known phrases, one of them recorded.
C10_Witness ==
  /\ pc = "done"
  /\ Len(knownWrappedPhrases) >= 2
  /\ DOMAIN unwrappedOccurrences # {}
  /\ DOMAIN unwrappedOccurrences # Range(knownWrappedPhrases)

====
